---- MODULE Spec2Model ----
(***************************************************************************)
(* A model of the media resolution pipeline of the Telegram downloader     *)
(* bot: the YouTube parser (src/app/parsers/youtube.py), and the message,  *)
(* inline-query and chosen-inline-result handlers (src/main.py).           *)
(*                                                                         *)
(* Several state machines share the module.  Each has its own variables    *)
(* and leaves the variables of the others at their initial values:         *)
(*   SpecParse    one call of Parser._parse on a link and a provider, and  *)
(*                the caption _process_video makes for the Video returned  *)
(*   SpecDispatch one link_parser up to the return of Parser.parse, with   *)
(*                the per-link tasks completing in any order               *)
(*   SpecDeliver  link_parser / _process_video run by concurrent handlers  *)
(*     SpecSeq    the same handlers, one update at a time, which is how    *)
(*                the Application of main() runs them                      *)
(*   SpecHistory  inline_query, await by await and run by two handlers at  *)
(*                once, and chosen_inline_query, of one user               *)
(***************************************************************************)
EXTENDS Integers, Sequences, FiniteSets

VARIABLES
    \* ---- Parser._parse ----
    link,       \* the matched link, a sequence of URL tokens
    yt,         \* the provider's answer: [streams, fault]
    parsed,     \* the outcome of _parse: [outcome, medias, error]
    extra_caption,  \* _process_video on the Video of _parse: whether the
                    \* caption has been made (made), and the notice in it
    \* ---- link_parser / _process_video ----
    tg_video_cache, \* ctx.tg_video_cache: a dict, as its set of (key, value) items
    handler,        \* each running link_parser: its position and its locals
    delivered,      \* history: per original_url, the handle returned by the
                    \* successful reply_video that completed last (None: none yet)
    \* ---- inline_query / chosen_inline_query ----
    temp_history,   \* ctx.temp_history: a dict, result id -> video.to_dict()
    history,        \* ctx.history: a list of videos
    uuids,          \* the number of result ids (uuid4) issued so far
    reports,        \* the reports stored by Reporter.save_report
    update,         \* the update whose handler took the last step, with the
                    \* video it chose
    \* ---- link_parser / Parser.parse ----
    dispatch,       \* one Parser.parse: the links, the per-link tasks in their
                    \* order of completion, their results, the merged medias
    \* ---- inline_query, await by await ----
    iq              \* each running inline_query: its position and its locals

parseVars == <<link, yt, parsed, extra_caption>>
deliverVars == <<tg_video_cache, handler, delivered>>
historyVars == <<temp_history, history, uuids, reports, update>>
dispatchVars == <<dispatch>>
inlineVars == <<iq>>
vars == <<link, yt, parsed, extra_caption, tg_video_cache, handler, delivered,
          temp_history, history, uuids, reports, update, dispatch, iq>>

None == "None"

(***************************************************************************)
(* Bounds of the model.                                                    *)
(***************************************************************************)
MaxStreams == 3
NumHandlers == 2
MaxResults == 3
MaxEntities == 3

(***************************************************************************)
(* constants.TG_FILE_LIMIT and the stream sizes, in megabytes.  The notice *)
(* of _process_video names the limit: 20 MB.                               *)
(***************************************************************************)
TG_FILE_LIMIT == 20

FileSizes == {0, 8, 15, 20, 25}
Resolutions == {1, 2, 3}

(***************************************************************************)
(* Links.  A link is a sequence of tokens; the tokens of a link are the    *)
(* pieces the regular expressions of REG_EXPS tell apart.  An id token is  *)
(* a run of [\w-] characters, a tail token starts with a character that is *)
(* not in [\w-].                                                           *)
(***************************************************************************)
IdTokens == {"TCrP1SE2DkY", "hBOLCcvbGHM"}
SchemeTokens == {"http://", "https://"}
TailTokens == {"&t=10s"}

Schemes == {<<>>} \cup {<<s>> : s \in SchemeTokens}
Hosts == { <<"youtube.com/watch?v=">>, <<"www.", "youtube.com/watch?v=">>,
           <<"youtu.be/">>,
           <<"youtube.com/shorts/">>, <<"www.", "youtube.com/shorts/">> }
Tails == {<<>>} \cup {<<t>> : t \in TailTokens}

Links == { s \o h \o <<i>> \o t : s \in Schemes, h \in Hosts,
                                 i \in IdTokens, t \in Tails }

StripScheme(l) ==
    IF l # <<>> /\ Head(l) \in SchemeTokens THEN Tail(l) ELSE l

StripWww(l) ==
    IF l # <<>> /\ Head(l) = "www." THEN Tail(l) ELSE l

\* (?P<id>[\w-]+) after the prefix `prefix` at the head of l
IdAfter(l, prefix) ==
    IF Len(l) >= 2 /\ l[1] = prefix /\ l[2] \in IdTokens THEN l[2] ELSE None

\* (?:https?://)?(?:(?:www\.)?youtube\.com/watch\?v=|youtu.be/)(?P<id>[\w-]+)
\* (the dot of youtu.be/ is not escaped and matches any character; the links
\* of the model hold the dot itself)
RegExpWatch(l) ==
    LET r == StripScheme(l)
        w == IdAfter(StripWww(r), "youtube.com/watch?v=")
    IN  IF w # None THEN w ELSE IdAfter(r, "youtu.be/")

\* (?:https?://)?(?:www\.)?youtube\.com/shorts/(?P<id>[\w-]+)
RegExpShorts(l) ==
    IdAfter(StripWww(StripScheme(l)), "youtube.com/shorts/")

\* REG_EXPS in order: the id captured by the first expression that matches
REG_EXPS(l) ==
    IF RegExpWatch(l) # None THEN RegExpWatch(l) ELSE RegExpShorts(l)

\* f"https://youtube.com/watch?v={yt_id}"
\* (variant: the short form of the link)
OriginalUrlShortForm(yt_id) == <<"https://", "youtu.be/", yt_id>>
OriginalUrl(yt_id) == <<"https://", "youtube.com/watch?v=", yt_id>>

(***************************************************************************)
(* The provider.  yt.streams is a sequence of streams in the provider's    *)
(* order; a stream's url is its place in that sequence.                    *)
(***************************************************************************)
StreamKinds == {"progressive-mp4", "progressive-3gpp", "adaptive-mp4"}
RawStreams == [filesize : FileSizes, resolution : Resolutions, kind : StreamKinds]

\* Python's None where a stream is expected
NoStream == [url |-> 0, filesize |-> 0, resolution |-> 0, kind |-> "none"]

RECURSIVE SeqsUpTo(_, _)
SeqsUpTo(S, n) ==
    IF n = 0 THEN {<<>>}
    ELSE LET shorter == SeqsUpTo(S, n - 1)
         IN  shorter \cup { Append(q, x) : q \in { r \in shorter : Len(r) = n - 1 },
                                            x \in S }

WithUrls(raw) ==
    [i \in 1..Len(raw) |->
        [url |-> i, filesize |-> raw[i].filesize,
         resolution |-> raw[i].resolution, kind |-> raw[i].kind]]

IsProgressive(s) == s.kind \in {"progressive-mp4", "progressive-3gpp"}
IsMp4(s) == s.kind \in {"progressive-mp4", "adaptive-mp4"}
MimeType(s) == IF IsMp4(s) THEN "video/mp4" ELSE "video/3gpp"

\* sorted(..., key=resolution): insert x after every element whose key is <= x's
RECURSIVE InsertByResolution(_, _)
InsertByResolution(q, x) ==
    IF q = <<>> THEN <<x>>
    ELSE IF Head(q).resolution <= x.resolution
         THEN <<Head(q)>> \o InsertByResolution(Tail(q), x)
         ELSE <<x>> \o q

RECURSIVE OrderByResolution(_)
OrderByResolution(q) ==
    IF q = <<>> THEN <<>>
    ELSE InsertByResolution(OrderByResolution(SubSeq(q, 1, Len(q) - 1)), q[Len(q)])

\* yt.streams.filter(type="video", progressive=True, file_extension="mp4")
\*           .order_by("resolution")
Mp4Progressive(s) == IsProgressive(s) /\ IsMp4(s)
FilteredStreams(streams) == OrderByResolution(SelectSeq(streams, Mp4Progressive))

\* yt.streams.get_highest_resolution():
\*   filter(progressive=True).order_by("resolution").last()
\* (variant GetFirstResolution: .first() in place of .last())
GetFirstResolution(streams) ==
    LET q == OrderByResolution(SelectSeq(streams, IsProgressive))
    IN  IF q = <<>> THEN NoStream ELSE q[1]
GetHighestResolution(streams) ==
    LET q == OrderByResolution(SelectSeq(streams, IsProgressive))
    IN  IF q = <<>> THEN NoStream ELSE q[Len(q)]

\* constants.TG_FILE_LIMIT >= file_size > max_fs
\* (variant SuitableNoLimit: the ceiling is not compared)
SuitableNoLimit(file_size, max_fs) == file_size > max_fs
Suitable(file_size, max_fs) ==
    TG_FILE_LIMIT >= file_size /\ file_size > max_fs

\* for st in streams: ... ; the stream left in `stream` after the loop
RECURSIVE SelectLoop(_, _, _)
SelectLoop(streams, stream, max_fs) ==
    IF streams = <<>> THEN stream
    ELSE LET st == Head(streams)
         IN  IF Suitable(st.filesize, max_fs)
             THEN SelectLoop(Tail(streams), st, st.filesize)
             ELSE SelectLoop(Tail(streams), stream, max_fs)

\* Python's None where the url of a stream is expected
NoUrl == NoStream.url

\* Video(..., url=stream.url, original_url=original_url,
\*       max_quality_url=max_quality_url, mime_type=stream.mime_type)
\* (variant VideoOmitEqual: max_quality_url is left out when it is the url)
VideoOmitEqual(stream, original_url, max_quality_url) ==
    [type |-> "youtube", url |-> stream.url, original_url |-> original_url,
     max_quality_url |-> IF max_quality_url = stream.url THEN NoUrl
                         ELSE max_quality_url,
     mime_type |-> MimeType(stream)]
Video(stream, original_url, max_quality_url) ==
    [type |-> "youtube", url |-> stream.url, original_url |-> original_url,
     max_quality_url |-> max_quality_url, mime_type |-> MimeType(stream)]

Returned(medias) == [outcome |-> "returned", medias |-> medias, error |-> None]
Raised(error) == [outcome |-> "raised", medias |-> <<>>, error |-> error]
Pending == [outcome |-> "pending", medias |-> <<>>, error |-> None]

(***************************************************************************)
(* Parser._parse.  The provider can fail where it is asked: yt.streams     *)
(* (the video is private, removed or region locked: a PytubeError),        *)
(* st.filesize (an HTTP request), yt.author / yt.title / yt.thumbnail_url  *)
(* (a PytubeError).  Only the last is inside the try block.                *)
(***************************************************************************)
Faults == {"none", "streams", "filesize", "metadata"}

_parse(l, y) ==
    LET yt_id == REG_EXPS(l)
        original_url == OriginalUrl(yt_id)
        all == WithUrls(y.streams)
        streams == FilteredStreams(all)
        highest == GetHighestResolution(all)
        stream == SelectLoop(streams, highest, 0)
    IN  IF yt_id = None THEN Returned(<<>>)
        ELSE IF y.fault = "streams" THEN Raised("PytubeError")
        ELSE IF highest = NoStream THEN Raised("AttributeError")
        ELSE IF y.fault = "filesize" /\ streams # <<>> THEN Raised("HTTPError")
        ELSE IF y.fault = "metadata" THEN Returned(<<>>)
        ELSE Returned(<<Video(stream, original_url, highest.url)>>)

(***************************************************************************)
(* The inputs of _parse: every link with every fault on the stream lists   *)
(* of at most one stream; the canonical link with every fault on the lists *)
(* of fewer than MaxStreams streams of any kind; the canonical link with   *)
(* the lists of up to MaxStreams progressive mp4 streams.                  *)
(***************************************************************************)
CanonicalLink == <<"https://", "youtube.com/watch?v=", "TCrP1SE2DkY">>

Mp4Streams == { s \in RawStreams : s.kind = "progressive-mp4" }

ParseInputs ==
    [link : Links, streams : SeqsUpTo(RawStreams, 1), fault : Faults]
    \cup [link : {CanonicalLink}, streams : SeqsUpTo(RawStreams, MaxStreams - 1),
          fault : Faults]
    \cup [link : {CanonicalLink}, streams : SeqsUpTo(Mp4Streams, MaxStreams),
          fault : {"none"}]

\* extra_caption = "" (line 40); made: line 49 has been reached
NoNotice(made) == [made |-> made, notice |-> FALSE, url |-> NoUrl]

\* if media.max_quality_url and media.max_quality_url != media.url:
\*     extra_caption = _("... Original video is larger than <b>20 MB</b>, and
\*         bot can't send it. ...").format(url=media.max_quality_url)
ExtraCaption(media) ==
    IF media.max_quality_url # NoUrl /\ media.max_quality_url # media.url
    THEN [made |-> TRUE, notice |-> TRUE, url |-> media.max_quality_url]
    ELSE NoNotice(TRUE)

ParseIdle ==
    /\ link = CanonicalLink
    /\ yt = [streams |-> <<>>, fault |-> "none"]
    /\ parsed = Pending
    /\ extra_caption = NoNotice(FALSE)

(***************************************************************************)
(* ctx.tg_video_cache, a dict.                                             *)
(***************************************************************************)
\* dict.get(key): the value under key, None when there is none
\* (variant DictGetMiss: a lookup that never finds the key)
DictGetMiss(dict, key) == None
DictGet(dict, key) ==
    IF \E e \in dict : e[1] = key
    THEN (CHOOSE e \in dict : e[1] = key)[2]
    ELSE None

\* dict.pop(key, default): the value popped
DictPop(dict, key, default) ==
    IF \E e \in dict : e[1] = key
    THEN (CHOOSE e \in dict : e[1] = key)[2]
    ELSE default

\* dict.pop(key, default): the dict after it
DictPopped(dict, key) == { e \in dict : e[1] # key }

\* dict.clear(): the dict after it
\* (variant DictClearNothing: the dict is left as it is)
DictClearNothing(dict) == dict
DictClear(dict) == {}

\* dict[key] = value
\* (variant DictSetDefault: dict.setdefault(key, value), an entry is kept)
DictSetDefault(dict, key, value) ==
    IF \E e \in dict : e[1] = key THEN dict ELSE dict \cup {<<key, value>>}
DictSet(dict, key, value) ==
    { e \in dict : e[1] # key } \cup {<<key, value>>}

(***************************************************************************)
(* Messages and what their links resolve to.  A message holds the links of *)
(* its URL entities, in order: none, one, or two.                          *)
(***************************************************************************)
LinkSet == {"youtu.be/A", "tiktok.com/B", "tiktok.com/album", "example.com"}
Messages ==
    {<<>>} \cup { <<a>> : a \in LinkSet }
           \cup { <<"example.com", "youtu.be/A">>,
                  <<"youtu.be/A", "tiktok.com/B">>, <<"tiktok.com/B", "youtu.be/A">>,
                  <<"tiktok.com/album", "youtu.be/A">> }

Urls == {"https://youtube.com/watch?v=A", "https://tiktok.com/B"}
Handles == {"file_id_1", "file_id_2"}
ChatTypes == {"private", "group"}

NoMedia == [kind |-> "none", original_url |-> None, url |-> None, file_input |-> None]

\* the Media a supported link resolves to
Resolve(l) ==
    CASE l = "youtu.be/A" ->
           [kind |-> "Video", original_url |-> "https://youtube.com/watch?v=A",
            url |-> "stream-A", file_input |-> None]
      [] l = "tiktok.com/B" ->
           [kind |-> "Video", original_url |-> "https://tiktok.com/B",
            url |-> "stream-B", file_input |-> "bytes-B"]
      [] l = "tiktok.com/album" ->
           [kind |-> "MediaGroup", original_url |-> "https://tiktok.com/album",
            url |-> None, file_input |-> None]
      [] OTHER -> NoMedia

\* Parser.parse(session, *links): the Media of the links, in the order of the
\* links; a link no variant matches, or that the provider has nothing for
\* (its place is not in `answered`), contributes nothing
RECURSIVE ParserParse(_, _, _)
ParserParse(links, answered, i) ==
    IF i > Len(links) THEN <<>>
    ELSE (IF i \in answered /\ Resolve(links[i]) # NoMedia
          THEN <<Resolve(links[i])>> ELSE <<>>)
         \o ParserParse(links, answered, i + 1)

(***************************************************************************)
(* link_parser, lines 103-113: the links of a message are the texts of its *)
(* URL and TEXT_LINK entities, in the order of the entities.               *)
(***************************************************************************)
EntityLinks == {"youtu.be/A", "tiktok.com/B", "example.com"}
Entities ==
    [type : {"url"}, text : EntityLinks]
    \cup { [type |-> "text_link", text |-> "youtu.be/A"],
           [type |-> "mention", text |-> "@user"] }

\* if entity.type in (MessageEntityType.URL, MessageEntityType.TEXT_LINK)
IsLinkEntity(entity) == entity.type \in {"url", "text_link"}

\* message_links = [text[entity.offset : entity.offset + entity.length]
\*                  for entity in m.entities if ...]
MessageLinks(entities) ==
    LET linked == SelectSeq(entities, IsLinkEntity)
    IN  [i \in 1..Len(linked) |-> linked[i].text]

(***************************************************************************)
(* Parser.parse as the per-link tasks it runs: a link a variant matches    *)
(* gets a task, the tasks complete in any order, and when all have         *)
(* completed their results are put together in the order of the links.     *)
(***************************************************************************)
\* the first variant whose match succeeds: the link has one
Matched(l) == Resolve(l) # NoMedia

\* the places of the links that get a task
Tasks(links) == { i \in DOMAIN links : Matched(links[i]) }

\* what the task of a link returns: its Media, or nothing (the provider has
\* nothing for it, or the fetch failed and was logged)
TaskResult(l, found) == IF found THEN <<Resolve(l)>> ELSE <<>>

\* the results put together, by place of the link
\* (variant MergeInCompletionOrder: by order of completion, as_completed)
RECURSIVE Concat(_, _)
Concat(results, places) ==
    IF places = <<>> THEN <<>>
    ELSE results[Head(places)] \o Concat(results, Tail(places))

MergeInCompletionOrder(results, done) == Concat(results, done)
MergeInLinkOrder(results, done) ==
    Concat(results, [i \in 1..Len(results) |-> i])

DispatchStart(links) ==
    [pc |-> "tasks", links |-> links, done |-> <<>>,
     results |-> [i \in 1..Len(links) |-> <<>>], medias |-> <<>>]

DispatchIdle ==
    dispatch = [pc |-> "idle", links |-> <<>>, done |-> <<>>,
                results |-> <<>>, medias |-> <<>>]

\* for media in medias: the first that is a Video or a MediaGroup
\* (variant LastMedia: the loop goes on after a media and ends on the last)
RECURSIVE LastMedia(_)
LastMedia(medias) ==
    IF medias = <<>> THEN NoMedia
    ELSE IF LastMedia(Tail(medias)) # NoMedia THEN LastMedia(Tail(medias))
         ELSE IF Head(medias).kind \in {"Video", "MediaGroup"} THEN Head(medias)
              ELSE NoMedia
RECURSIVE FirstMedia(_)
FirstMedia(medias) ==
    IF medias = <<>> THEN NoMedia
    ELSE IF Head(medias).kind \in {"Video", "MediaGroup"} THEN Head(medias)
         ELSE FirstMedia(Tail(medias))

\* video=(tg_video or media.file_input or media.url)
NoVideoArg == [from |-> "none", value |-> None]
\* if update.effective_chat.type == ChatType.PRIVATE
\* (variant IsAnyChat: the chat type is not looked at)
IsAnyChat(chat) == chat \in ChatTypes
IsPrivateChat(chat) == chat = "private"

\* (variant VideoArgIgnoreCache: video=(media.file_input or media.url))
VideoArgIgnoreCache(tg_video, media) ==
    IF media.file_input # None THEN [from |-> "file_input", value |-> media.file_input]
    ELSE [from |-> "url", value |-> media.url]
VideoArg(tg_video, media) ==
    IF tg_video # None THEN [from |-> "tg_video", value |-> tg_video]
    ELSE IF media.file_input # None
         THEN [from |-> "file_input", value |-> media.file_input]
         ELSE [from |-> "url", value |-> media.url]

(***************************************************************************)
(* The handlers.  A handler is at one of the awaits of link_parser and     *)
(* _process_video:                                                         *)
(*   idle           no update                                              *)
(*   parsing        await Parser.parse(session, *message_links)            *)
(*   reply_video    await update.effective_message.reply_video(...)        *)
(*   reply_text     await update.effective_message.reply_text(...)         *)
(*   reply_group    await update.message.reply_media_group(...)            *)
(*   done           returned or raised (outcome: returned, BadRequest,     *)
(*                  AttributeError, or raised for the error of the call    *)
(*                  awaited), with the message sent (res) and the chat     *)
(*                  type read, if any, and, when reply_video returned a    *)
(*                  video or raised BadRequest, its video argument         *)
(* While a reply is awaited the handler holds the medias Parser.parse      *)
(* returned and the media it is processing.                                *)
(***************************************************************************)
Handlers == 1..NumHandlers

IdleHandler ==
    [pc |-> "idle", links |-> <<>>, medias |-> <<>>, media |-> NoMedia,
     video |-> NoVideoArg,
     res |-> None, chat |-> None, outcome |-> None]

Done(outcome, video, res, chat) ==
    [IdleHandler EXCEPT !.pc = "done", !.outcome = outcome, !.video = video,
                        !.res = res, !.chat = chat]

DeliverIdle ==
    /\ tg_video_cache = {}
    /\ handler = [p \in Handlers |-> IdleHandler]
    /\ delivered = [u \in Urls |-> None]

(***************************************************************************)
(* inline_query and chosen_inline_query of one user.                       *)
(***************************************************************************)
\* the queries: the empty one and two that Parser.parse resolves to a video
Queries == {"", "youtu.be/A", "tiktok.com/B"}
ResultIds == 1..MaxResults

NoUpdate == [kind |-> "none", result_id |-> 0,
             history_enabled |-> FALSE, video |-> NoMedia]

\* an update with an inline query; its query is kept by the handler that runs
\* it, iq[h].query
InlineUpdate ==
    [kind |-> "inline_query", result_id |-> 0,
     history_enabled |-> FALSE, video |-> NoMedia]

\* an update with a chosen inline result; video is what line 171 pops
ChosenUpdate(result_id, history_enabled, video) ==
    [kind |-> "chosen_inline_result", result_id |-> result_id,
     history_enabled |-> history_enabled, video |-> video]

HistoryIdle ==
    /\ temp_history = {}
    /\ history = <<>>
    /\ uuids = 0
    /\ reports = {}
    /\ update = NoUpdate

IsVideo(media) == media.kind = "Video"

\* the stored reports with r's type, message and place
FindReports(stored, report_type, message, report_place) ==
    { s \in stored : /\ s.report_type = report_type
                     /\ s.message = message
                     /\ s.report_place = report_place }

\* r as it is stored: a stored report is told from the others by its type,
\* message and place and by its number among the reports stored with them
NewReport(stored, report_type, message, report_place) ==
    [report_type |-> report_type, message |-> message,
     report_place |-> report_place,
     copy |-> Cardinality(FindReports(stored, report_type, message, report_place)) + 1]

\* Reporter.save_report(r), the store after it: the stored report with r's
\* type, message and place is looked up; if there is none, r is stored
\* (variant SaveReportAlways: r is stored without the lookup)
SaveReportAlways(stored, report_type, message, report_place) ==
    stored \cup {NewReport(stored, report_type, message, report_place)}
SaveReport(stored, report_type, message, report_place) ==
    IF FindReports(stored, report_type, message, report_place) # {}
    THEN stored
    ELSE stored \cup {NewReport(stored, report_type, message, report_place)}

\* Reporter.save_report(r), the identifier returned: that of the report
\* found, else that of r as stored (a stored report stands for its identifier)
SavedReportUid(stored, report_type, message, report_place) ==
    LET found == FindReports(stored, report_type, message, report_place)
    IN  IF found # {}
        THEN CHOOSE s \in found : \A t \in found : s.copy <= t.copy
        ELSE NewReport(stored, report_type, message, report_place)

\* no report: report_uid before save_report has returned
NoReport ==
    [report_type |-> None, message |-> None, report_place |-> None, copy |-> 0]

(***************************************************************************)
(* inline_query await by await.  A running inline_query is at one of:      *)
(*   idle            no update                                             *)
(*   answer_history  await update.inline_query.answer(...) in send_history *)
(*   parsing         await Parser.parse(session, query)                    *)
(*   save_report     await Reporter.save_report(r)                         *)
(*   answer          await update.inline_query.answer(...)                 *)
(*   done            returned                                              *)
(*   raised          ended by the error of the call it awaited             *)
(***************************************************************************)
InlineHandlers == {1, 2}

IdleInline ==
    [pc |-> "idle", query |-> None, report_type |-> None, report_uid |-> NoReport]

InlineIdle == iq = [h \in InlineHandlers |-> IdleInline]

\* for video, iq_video in zip(videos, results):
\*     ctx.temp_history[iq_video.id] = video.to_dict()
\* the i-th result has the id first + i
RECURSIVE ZipIntoTempHistory(_, _, _)
ZipIntoTempHistory(dict, videos, first) ==
    IF videos = <<>> THEN dict
    ELSE ZipIntoTempHistory(DictSet(dict, first + 1, Head(videos)),
                            Tail(videos), first + 1)

\* if video not in ctx.history: ctx.history.append(video)
\* (variant AppendAlways: the append without the membership test)
AppendAlways(list, video) == Append(list, video)
AppendIfAbsent(list, video) ==
    IF \E i \in DOMAIN list : list[i] = video THEN list ELSE Append(list, video)

\* if not video or not ctx.settings.is_history_enabled(update): return
\* (variant NotRecordedUnlessPending: the settings are not asked)
NotRecordedUnlessPending(video, history_enabled) == video = NoMedia
NotRecorded(video, history_enabled) == video = NoMedia \/ ~history_enabled

InitHistory == ParseIdle /\ DeliverIdle /\ HistoryIdle /\ DispatchIdle /\ InlineIdle

\* lines 185-200 and 202-209: an empty query is answered by the history, any
\* other is handed to Parser.parse
InlineQueryBegins(h, query) ==
    /\ iq[h].pc \in {"idle", "done", "raised"}
    /\ iq' = [iq EXCEPT ![h] =
                 [IdleInline EXCEPT
                     !.pc = IF query = "" THEN "answer_history" ELSE "parsing",
                     !.query = query]]
    /\ update' = InlineUpdate
    /\ UNCHANGED <<temp_history, history, uuids, reports>>
    /\ UNCHANGED <<parseVars, deliverVars, dispatchVars>>

\* send_history: update.inline_query.answer returns, lines 198-200
InlineHistoryAnswered(h) ==
    /\ iq[h].pc = "answer_history"
    /\ iq' = [iq EXCEPT ![h] = [IdleInline EXCEPT !.pc = "done"]]
    /\ update' = InlineUpdate
    /\ UNCHANGED <<temp_history, history, uuids, reports>>
    /\ UNCHANGED <<parseVars, deliverVars, dispatchVars>>

\* Parser.parse returns no medias, lines 211-219 up to the await of save_report
InlineParsedNothing(h) ==
    /\ iq[h].pc = "parsing"
    /\ iq' = [iq EXCEPT ![h].pc = "save_report",
                        ![h].report_type = "MEDIA_NOT_FOUND"]
    /\ update' = InlineUpdate
    /\ UNCHANGED <<temp_history, history, uuids, reports>>
    /\ UNCHANGED <<parseVars, deliverVars, dispatchVars>>

\* Parser.parse returns medias, lines 229-244 up to the await of save_report:
\* the results get their ids and, if ctx.settings.is_history_enabled(update),
\* the videos are registered under them
InlineParsedMedias(h, history_enabled) ==
    LET medias == ParserParse(<<iq[h].query>>, {1}, 1)
        videos == SelectSeq(medias, IsVideo)
    IN  /\ iq[h].pc = "parsing"
        /\ medias # <<>>
        /\ uuids + Len(videos) <= MaxResults
        /\ uuids' = uuids + Len(videos)
        /\ temp_history' = IF history_enabled
                           THEN ZipIntoTempHistory(temp_history, videos, uuids)
                           ELSE temp_history
        /\ iq' = [iq EXCEPT ![h].pc = "save_report",
                            ![h].report_type = "WRONG_MEDIA"]
        /\ update' = InlineUpdate
        /\ UNCHANGED <<history, reports>>
        /\ UNCHANGED <<parseVars, deliverVars, dispatchVars>>

\* Reporter.save_report(r) returns report_uid, lines 219 and 244
InlineReportSaved(h) ==
    /\ iq[h].pc = "save_report"
    /\ reports' = SaveReport(reports, iq[h].report_type, iq[h].query, "INLINE")
    /\ iq' = [iq EXCEPT
                 ![h].pc = "answer",
                 ![h].report_uid = SavedReportUid(reports, iq[h].report_type,
                                                  iq[h].query, "INLINE")]
    /\ update' = InlineUpdate
    /\ UNCHANGED <<temp_history, history, uuids>>
    /\ UNCHANGED <<parseVars, deliverVars, dispatchVars>>

\* update.inline_query.answer returns, lines 221-227 and 246-257
InlineAnswered(h) ==
    /\ iq[h].pc = "answer"
    /\ iq' = [iq EXCEPT ![h] = [IdleInline EXCEPT !.pc = "done"]]
    /\ update' = InlineUpdate
    /\ UNCHANGED <<temp_history, history, uuids, reports>>
    /\ UNCHANGED <<parseVars, deliverVars, dispatchVars>>

\* the call awaited (Parser.parse, Reporter.save_report or
\* update.inline_query.answer) raises: inline_query ends with its error, and
\* what it has written so far stays
InlineAwaitRaised(h) ==
    /\ iq[h].pc \in {"answer_history", "parsing", "save_report", "answer"}
    /\ iq' = [iq EXCEPT ![h] = [IdleInline EXCEPT !.pc = "raised"]]
    /\ update' = InlineUpdate
    /\ UNCHANGED <<temp_history, history, uuids, reports>>
    /\ UNCHANGED <<parseVars, deliverVars, dispatchVars>>

\* chosen_inline_query, lines 170-180; it has no await
ChosenInlineQuery(result_id, history_enabled) ==
    LET video == DictPop(temp_history, result_id, NoMedia)
    IN  /\ temp_history' = DictClear(DictPopped(temp_history, result_id))
        /\ history' = IF NotRecorded(video, history_enabled)
                      THEN history
                      ELSE AppendIfAbsent(history, video)
        /\ update' = ChosenUpdate(result_id, history_enabled, video)
        /\ UNCHANGED <<uuids, reports>>
        /\ UNCHANGED <<parseVars, deliverVars, dispatchVars, inlineVars>>

\* the handlers of a user's updates, interleaved at their awaits
NextHistory ==
    \/ \E h \in InlineHandlers :
          \/ \E query \in Queries : InlineQueryBegins(h, query)
          \/ InlineHistoryAnswered(h)
          \/ InlineParsedNothing(h)
          \/ \E history_enabled \in BOOLEAN : InlineParsedMedias(h, history_enabled)
          \/ InlineReportSaved(h)
          \/ InlineAnswered(h)
          \/ InlineAwaitRaised(h)
    \/ \E result_id \in ResultIds : \E history_enabled \in BOOLEAN :
          ChosenInlineQuery(result_id, history_enabled)

SpecHistory == InitHistory /\ [][NextHistory]_vars

InitDeliver == ParseIdle /\ DeliverIdle /\ HistoryIdle /\ DispatchIdle /\ InlineIdle

\* link_parser, lines 103-116: the links of the message, then Parser.parse
LinkParser(p, links) ==
    /\ handler[p].pc \in {"idle", "done"}
    /\ handler' = [handler EXCEPT ![p] =
                       [IdleHandler EXCEPT !.pc = "parsing", !.links = links]]
    /\ UNCHANGED <<tg_video_cache, delivered, parseVars, historyVars, dispatchVars, inlineVars>>

\* lines 118-129 with no Video and no MediaGroup among the medias
NoMediaFound(p, answered) ==
    /\ handler[p].pc = "parsing"
    /\ FirstMedia(ParserParse(handler[p].links, answered, 1)) = NoMedia
    /\ handler' = [handler EXCEPT ![p] = Done("returned", NoVideoArg, None, None)]
    /\ UNCHANGED <<tg_video_cache, delivered, parseVars, historyVars, dispatchVars, inlineVars>>

\* lines 118-124 and _process_video, lines 40-56, up to the await of reply_video
ProcessVideo(p, answered) ==
    LET medias == ParserParse(handler[p].links, answered, 1)
        media == FirstMedia(medias)
        tg_video == DictGet(tg_video_cache, media.original_url)
    IN  /\ handler[p].pc = "parsing"
        /\ media.kind = "Video"
        /\ handler' = [handler EXCEPT ![p].pc = "reply_video",
                                      ![p].links = <<>>,
                                      ![p].medias = medias,
                                      ![p].media = media,
                                      ![p].video = VideoArg(tg_video, media)]
        /\ UNCHANGED <<tg_video_cache, delivered, parseVars, historyVars, dispatchVars, inlineVars>>

\* lines 126-128 and _process_media_group, up to the await of reply_media_group
ProcessMediaGroup(p, answered) ==
    LET medias == ParserParse(handler[p].links, answered, 1)
        media == FirstMedia(medias)
    IN  /\ handler[p].pc = "parsing"
        /\ media.kind = "MediaGroup"
        /\ handler' = [handler EXCEPT ![p].pc = "reply_group", ![p].links = <<>>,
                                      ![p].medias = medias,
                                      ![p].media = media]
        /\ UNCHANGED <<tg_video_cache, delivered, parseVars, historyVars, dispatchVars, inlineVars>>

\* reply_media_group returns
MediaGroupSent(p) ==
    /\ handler[p].pc = "reply_group"
    /\ handler' = [handler EXCEPT ![p] = Done("returned", NoVideoArg, None, None)]
    /\ UNCHANGED <<tg_video_cache, delivered, parseVars, historyVars, dispatchVars, inlineVars>>

\* reply_video returns the message sent; line 64 writes its video to the cache
VideoSent(p, file_id) ==
    /\ handler[p].pc = "reply_video"
    /\ tg_video_cache' =
           DictSet(tg_video_cache, handler[p].media.original_url, file_id)
    /\ delivered' = [delivered EXCEPT ![handler[p].media.original_url] = file_id]
    /\ handler' = [handler EXCEPT ![p] = Done("returned", handler[p].video, file_id, None)]
    /\ UNCHANGED <<parseVars, historyVars, dispatchVars, inlineVars>>

\* reply_video raises BadRequest, lines 65-85: in a private chat the link is
\* sent as text before the error is raised again
\* (variant VideoRefusedEvicting: the refused url is dropped from the cache)
VideoRefusedEvicting(p, chat) ==
    /\ handler[p].pc = "reply_video"
    /\ handler' = [handler EXCEPT ![p] =
                       IF IsPrivateChat(chat)
                       THEN [@ EXCEPT !.pc = "reply_text", !.chat = chat]
                       ELSE Done("BadRequest", handler[p].video, None, chat)]
    /\ tg_video_cache' =
           { e \in tg_video_cache : e[1] # handler[p].media.original_url }
    /\ UNCHANGED <<delivered, parseVars, historyVars, dispatchVars, inlineVars>>
VideoRefused(p, chat) ==
    /\ handler[p].pc = "reply_video"
    /\ handler' = [handler EXCEPT ![p] =
                       IF IsPrivateChat(chat)
                       THEN [@ EXCEPT !.pc = "reply_text", !.chat = chat]
                       ELSE Done("BadRequest", handler[p].video, None, chat)]
    /\ UNCHANGED <<tg_video_cache, delivered, parseVars, historyVars, dispatchVars, inlineVars>>

\* reply_text returns, line 85 raises the BadRequest again
LinkSent(p) ==
    /\ handler[p].pc = "reply_text"
    /\ handler' = [handler EXCEPT ![p] = Done("BadRequest", handler[p].video, "text", handler[p].chat)]
    /\ UNCHANGED <<tg_video_cache, delivered, parseVars, historyVars, dispatchVars, inlineVars>>

\* reply_video returns a message that has no video (res.video is None):
\* line 64 raises AttributeError before the cache is written, and the except
\* of line 65 does not catch it
VideoSentWithoutVideo(p) ==
    /\ handler[p].pc = "reply_video"
    /\ handler' = [handler EXCEPT ![p] =
                       Done("AttributeError", NoVideoArg, "no_video", None)]
    /\ UNCHANGED <<tg_video_cache, delivered, parseVars, historyVars, dispatchVars, inlineVars>>

\* the call awaited raises: Parser.parse (line 116), reply_video with an
\* error other than BadRequest (line 56), reply_media_group (line 96), or the
\* reply_text of the fallback (line 74), which is inside the except block
\* and before line 85.  The handler ends with that error; after a failed
\* reply_text no link has been sent and the BadRequest is not raised again
AwaitRaised(p) ==
    /\ handler[p].pc \in {"parsing", "reply_video", "reply_group", "reply_text"}
    /\ handler' = [handler EXCEPT ![p] =
                       Done("raised", NoVideoArg, None, handler[p].chat)]
    /\ UNCHANGED <<tg_video_cache, delivered, parseVars, historyVars, dispatchVars, inlineVars>>

\* the handlers of several updates run concurrently
NextDeliver ==
    \E p \in Handlers :
        \/ \E links \in Messages : LinkParser(p, links)
        \/ \E answered \in SUBSET DOMAIN handler[p].links : NoMediaFound(p, answered)
        \/ \E answered \in SUBSET DOMAIN handler[p].links : ProcessVideo(p, answered)
        \/ \E answered \in SUBSET DOMAIN handler[p].links :
               ProcessMediaGroup(p, answered)
        \/ MediaGroupSent(p)
        \/ \E file_id \in Handles : VideoSent(p, file_id)
        \/ \E chat \in ChatTypes : VideoRefused(p, chat)
        \/ LinkSent(p)
        \/ VideoSentWithoutVideo(p)
        \/ AwaitRaised(p)

SpecDeliver == InitDeliver /\ [][NextDeliver]_vars

\* one update at a time: an update is taken when no handler is running
NoneRunning == \A q \in Handlers : handler[q].pc \in {"idle", "done"}

LinkParserAlone(p, links) == NoneRunning /\ LinkParser(p, links)

NextSeq ==
    \E p \in Handlers :
        \/ \E links \in Messages : LinkParserAlone(p, links)
        \/ \E answered \in SUBSET DOMAIN handler[p].links : NoMediaFound(p, answered)
        \/ \E answered \in SUBSET DOMAIN handler[p].links : ProcessVideo(p, answered)
        \/ \E answered \in SUBSET DOMAIN handler[p].links :
               ProcessMediaGroup(p, answered)
        \/ MediaGroupSent(p)
        \/ \E file_id \in Handles : VideoSent(p, file_id)
        \/ \E chat \in ChatTypes : VideoRefused(p, chat)
        \/ LinkSent(p)
        \/ VideoSentWithoutVideo(p)
        \/ AwaitRaised(p)

SpecSeq == InitDeliver /\ [][NextSeq]_vars

(***************************************************************************)
(* One link_parser up to the return of Parser.parse, task by task.         *)
(***************************************************************************)
InitDispatch == ParseIdle /\ DeliverIdle /\ HistoryIdle /\ DispatchIdle /\ InlineIdle

\* link_parser, lines 103-116: the links are extracted and Parser.parse called
ExtractAndParse(entities) ==
    /\ dispatch.pc \in {"idle", "joined"}
    /\ dispatch' = DispatchStart(MessageLinks(entities))
    /\ UNCHANGED <<parseVars, deliverVars, historyVars, inlineVars>>

\* the task of the i-th link completes
TaskCompletes(i, found) ==
    /\ dispatch.pc = "tasks"
    /\ i \in Tasks(dispatch.links)
    /\ \A k \in DOMAIN dispatch.done : dispatch.done[k] # i
    /\ dispatch' = [dispatch EXCEPT
                       !.results[i] = TaskResult(dispatch.links[i], found),
                       !.done = Append(@, i)]
    /\ UNCHANGED <<parseVars, deliverVars, historyVars, inlineVars>>

\* every task has completed: Parser.parse returns the medias, line 116
ParseReturns ==
    /\ dispatch.pc = "tasks"
    /\ Len(dispatch.done) = Cardinality(Tasks(dispatch.links))
    /\ dispatch' = [dispatch EXCEPT
                       !.pc = "joined",
                       !.medias = MergeInLinkOrder(dispatch.results, dispatch.done)]
    /\ UNCHANGED <<parseVars, deliverVars, historyVars, inlineVars>>

NextDispatch ==
    \/ \E entities \in SeqsUpTo(Entities, MaxEntities) : ExtractAndParse(entities)
    \/ \E i \in DOMAIN dispatch.links : \E found \in BOOLEAN : TaskCompletes(i, found)
    \/ ParseReturns

SpecDispatch == InitDispatch /\ [][NextDispatch]_vars

InitParse ==
    /\ \E in \in ParseInputs :
          /\ link = in.link
          /\ yt = [streams |-> in.streams, fault |-> in.fault]
    /\ parsed = Pending
    /\ extra_caption = NoNotice(FALSE)
    /\ DeliverIdle
    /\ HistoryIdle
    /\ DispatchIdle
    /\ InlineIdle

Parse ==
    /\ parsed = Pending
    /\ parsed' = _parse(link, yt)
    /\ UNCHANGED <<link, yt, extra_caption>>
    /\ UNCHANGED <<deliverVars, historyVars, dispatchVars, inlineVars>>

\* link_parser hands the Video to _process_video, lines 40-49: the caption
ProcessVideoCaption ==
    /\ parsed.outcome = "returned"
    /\ parsed.medias # <<>>
    /\ ~extra_caption.made
    /\ extra_caption' = ExtraCaption(parsed.medias[1])
    /\ UNCHANGED <<link, yt, parsed>>
    /\ UNCHANGED <<deliverVars, historyVars, dispatchVars, inlineVars>>

NextParse == Parse \/ ProcessVideoCaption

SpecParse == InitParse /\ [][NextParse]_vars

(***************************************************************************)
(* Properties of Parser._parse (SpecParse).                                *)
(***************************************************************************)
Range(q) == { q[i] : i \in DOMAIN q }
MaxOf(S) == CHOOSE x \in S : \A y \in S : y <= x

ReturnedVideo == parsed.outcome = "returned" /\ parsed.medias # <<>>
TheVideo == parsed.medias[1]
AllStreams == Range(WithUrls(yt.streams))
\* the stream a url of the Video names
StreamOf(url) == WithUrls(yt.streams)[url]
\* the streams the selection loop runs over
Candidates == { s \in AllStreams : s.kind = "progressive-mp4" }
FitsCeiling == { s \in Candidates : s.filesize <= TG_FILE_LIMIT }
Deliverable == { s \in Candidates : 0 < s.filesize /\ s.filesize <= TG_FILE_LIMIT }
ProgressiveStreams ==
    { s \in AllStreams : s.kind \in {"progressive-mp4", "progressive-3gpp"} }

\* C1 as stated: whenever some candidate's size is <= the ceiling (a size of
\* 0, unknown, included), the delivered stream's size is <= the ceiling and is
\* the largest size among the candidates that are <= the ceiling.
C1_AnySizeUnderCeiling ==
    (ReturnedVideo /\ FitsCeiling # {}) =>
        /\ StreamOf(TheVideo.url).filesize <= TG_FILE_LIMIT
        /\ StreamOf(TheVideo.url).filesize = MaxOf({ s.filesize : s \in FitsCeiling })

\* C1 amended: whenever some candidate has 0 < size <= the ceiling, the
\* delivered stream is such a candidate and its size is the largest among them.
C1_LargestDeliverable ==
    (ReturnedVideo /\ Deliverable # {}) =>
        /\ StreamOf(TheVideo.url) \in Deliverable
        /\ StreamOf(TheVideo.url).filesize <= TG_FILE_LIMIT
        /\ StreamOf(TheVideo.url).filesize = MaxOf({ s.filesize : s \in Deliverable })

\* the example of the spec: 25 MB / rank 3, 15 MB / rank 2, 8 MB / rank 1
C1_Witness ==
    /\ yt.streams = << [filesize |-> 25, resolution |-> 3, kind |-> "progressive-mp4"],
                       [filesize |-> 15, resolution |-> 2, kind |-> "progressive-mp4"],
                       [filesize |-> 8, resolution |-> 1, kind |-> "progressive-mp4"] >>
    /\ ReturnedVideo
    /\ TheVideo.url = 2
    /\ TheVideo.max_quality_url = 1

\* C2: when no candidate has 0 < size <= the ceiling, the Video's url and
\* max_quality_url are both the url of the highest-resolution progressive stream.
C2_NothingFits ==
    (ReturnedVideo /\ Deliverable = {}) =>
        /\ TheVideo.url = TheVideo.max_quality_url
        /\ StreamOf(TheVideo.url) \in ProgressiveStreams
        /\ \A s \in ProgressiveStreams :
              s.resolution <= StreamOf(TheVideo.url).resolution

C2_Witness ==
    /\ yt.streams = << [filesize |-> 25, resolution |-> 1, kind |-> "progressive-mp4"],
                       [filesize |-> 25, resolution |-> 3, kind |-> "progressive-mp4"],
                       [filesize |-> 0, resolution |-> 2, kind |-> "progressive-mp4"] >>
    /\ ReturnedVideo
    /\ TheVideo.url = 2
    /\ TheVideo.max_quality_url = 2

\* C3 as stated: among the deliverable streams that share the delivered
\* stream's size, none has a higher resolution than the delivered stream.
C3_TieBreakHigherResolution ==
    (ReturnedVideo /\ Deliverable # {}) =>
        \A s \in Deliverable :
            s.filesize = StreamOf(TheVideo.url).filesize
                => s.resolution <= StreamOf(TheVideo.url).resolution

\* C4 as stated: a provider error at any step of the resolution, or a provider
\* with no usable stream, makes _parse return the empty list, never raise.
C4_NeverRaises ==
    (parsed # Pending /\ (yt.fault # "none" \/ ProgressiveStreams = {})) =>
        parsed = Returned(<<>>)

\* the id token of a link
IdOf(l) == CHOOSE t \in IdTokens : t \in Range(l)

\* C10 as stated: the original_url of the returned Media is the link supplied.
C10_OriginalUrlIsSuppliedLink ==
    ReturnedVideo => TheVideo.original_url = link

\* C10 amended: the original_url of the returned Media is the canonical
\* https://youtube.com/watch?v=<id> of the id captured from the supplied
\* link, so it is the supplied link exactly when that link is canonical.
C10_OriginalUrlIsCanonical ==
    ReturnedVideo =>
        /\ TheVideo.original_url = <<"https://", "youtube.com/watch?v=", IdOf(link)>>
        /\ (TheVideo.original_url = link) <=>
               (link = <<"https://", "youtube.com/watch?v=", IdOf(link)>>)

C10_Witness ==
    /\ link = <<"youtu.be/", "hBOLCcvbGHM", "&t=10s">>
    /\ ReturnedVideo
    /\ TheVideo.original_url = <<"https://", "youtube.com/watch?v=", "hBOLCcvbGHM">>

\* the progressive streams no progressive stream has a higher resolution than
BestStreams ==
    { s \in ProgressiveStreams :
        \A t \in ProgressiveStreams : t.resolution <= s.resolution }

\* C11 as stated: max_quality_url is set (to the best stream's url) only if
\* it differs from url; when the delivered stream is the best stream it is
\* omitted.
C11_OmittedWhenEqual ==
    ReturnedVideo =>
        /\ TheVideo.max_quality_url # NoUrl
              => TheVideo.max_quality_url # TheVideo.url
        /\ StreamOf(TheVideo.url) \in BestStreams
              => TheVideo.max_quality_url = NoUrl

\* C11 amended: max_quality_url is always set, to the url of a progressive
\* stream of the highest resolution, whether or not that is the delivered
\* stream; it is never omitted.
C11_AlwaysBestUrl ==
    ReturnedVideo =>
        /\ TheVideo.max_quality_url # NoUrl
        /\ TheVideo.max_quality_url \in DOMAIN yt.streams
        /\ StreamOf(TheVideo.max_quality_url) \in BestStreams

\* the only stream fits and is delivered: max_quality_url is its url too
C11_Witness ==
    /\ yt.streams = << [filesize |-> 15, resolution |-> 2, kind |-> "progressive-mp4"] >>
    /\ ReturnedVideo
    /\ TheVideo.url = 1
    /\ TheVideo.max_quality_url = TheVideo.url

\* C17 as stated: whenever the notice "Original video is larger than 20 MB,
\* and bot can't send it" is in the caption, the stream it links to, the best
\* stream, has a size above the ceiling.  (A best stream of unknown size, 0,
\* is not held against the notice: the claim is taken to fail only when the
\* best stream is known to fit.)
C17_NoticeTruthful ==
    extra_caption.notice =>
        ~ (/\ 0 < StreamOf(extra_caption.url).filesize
           /\ StreamOf(extra_caption.url).filesize <= TG_FILE_LIMIT)

(***************************************************************************)
(* Properties of link_parser and _process_video (SpecDeliver, SpecSeq).    *)
(***************************************************************************)
UrlA == "https://youtube.com/watch?v=A"
UrlB == "https://tiktok.com/B"
EntriesOf(u) == { e \in tg_video_cache : e[1] = u }
\* the links of a message whose Media is keyed by an already delivered url
DeliveredLinks(links) ==
    { i \in DOMAIN links : /\ Resolve(links[i]).original_url \in Urls
                           /\ delivered[Resolve(links[i]).original_url] # None }
Running(p) == handler[p].pc \notin {"idle", "done"}

\* C5 as stated: once a link has been delivered, no later request fetches it
\* again (no Parser.parse runs on it) and no later delivery uploads it again.
C5_NeitherRefetchedNorReuploaded ==
    \A p \in Handlers :
        /\ handler[p].pc = "parsing" => DeliveredLinks(handler[p].links) = {}
        /\ (handler[p].pc = "reply_video"
              /\ delivered[handler[p].media.original_url] # None)
             => handler[p].video.from = "tg_video"

\* C5 amended: every update, also one for a link delivered before, goes
\* through Parser.parse first; the reply_video that follows the parse sends
\* the cached handle when the url has been delivered, not the binary again.
C5_RefetchedNotReuploaded ==
    [][\A p \in Handlers :
          /\ (~Running(p) /\ Running(p)') => handler'[p].pc = "parsing"
          /\ (handler[p].pc # "reply_video" /\ handler'[p].pc = "reply_video")
               => /\ handler[p].pc = "parsing"
                  /\ delivered[handler'[p].media.original_url] # None
                       => handler'[p].video =
                            [from |-> "tg_video",
                             value |-> delivered[handler'[p].media.original_url]]
      ]_vars

\* a second request for a delivered link, being fetched again
C5_Witness ==
    \E p \in Handlers :
        /\ handler[p].pc = "parsing"
        /\ handler[p].links = <<"youtu.be/A">>
        /\ delivered[UrlA] # None

\* C6: while reply_video is awaited, a cache entry for media.original_url
\* means the cached handle is the video argument (not file_input, not url);
\* with one update at a time, every delivery of a url delivered before
\* sends the cached handle, that of the last successful delivery.
C6_CachedHandleSent ==
    \A p \in Handlers :
        handler[p].pc = "reply_video" =>
            LET u == handler[p].media.original_url
            IN  /\ \A e \in EntriesOf(u) :
                      handler[p].video = [from |-> "tg_video", value |-> e[2]]
                /\ delivered[u] # None =>
                      handler[p].video = [from |-> "tg_video", value |-> delivered[u]]

\* a delivered video that has a file_input is sent again by its cached handle
C6_Witness ==
    \E p \in Handlers :
        /\ handler[p].pc = "reply_video"
        /\ handler[p].media = Resolve("tiktok.com/B")
        /\ delivered[UrlB] = "file_id_2"
        /\ handler[p].video = [from |-> "tg_video", value |-> "file_id_2"]

\* C7: whatever the interleaving, the cache holds for each url exactly the
\* handle of the successful delivery that completed last, and nothing for a
\* url never delivered.
C7_LastWriteWins ==
    /\ \A e \in tg_video_cache : e[1] \in Urls
    /\ \A u \in Urls :
          EntriesOf(u) = IF delivered[u] = None THEN {} ELSE {<<u, delivered[u]>>}

\* two deliveries of the same url that both missed the cache, the second to
\* complete having overwritten the handle of the first
C7_Witness ==
    /\ handler[1] = Done("returned", [from |-> "url", value |-> "stream-A"],
                         "file_id_1", None)
    /\ handler[2] = Done("returned", [from |-> "url", value |-> "stream-A"],
                         "file_id_2", None)
    /\ tg_video_cache = {<<UrlA, "file_id_2">>}
    /\ delivered[UrlA] = "file_id_2"

\* C12 as stated: whenever reply_video raised BadRequest, the user has been
\* sent a text message with a link to the video, in every chat type.
C12_LinkInEveryChat ==
    \A p \in Handlers :
        (handler[p].pc = "done" /\ handler[p].outcome = "BadRequest")
            => handler[p].res = "text"

\* C12 amended: when reply_video raised BadRequest, a text message with the
\* link is attempted in a private chat and only there.  If that reply_text
\* returns, the link has been sent and the run ends by raising the
\* BadRequest; if it raises, no link has been sent and the run ends with
\* the error of reply_text.  In any other chat nothing is sent and the run
\* ends by raising the BadRequest.
C12_LinkOnlyInPrivateChat ==
    [][\A p \in Handlers :
          /\ handler'[p].pc = "reply_text"
               => /\ handler'[p].chat = "private"
                  /\ handler[p].pc \in {"reply_video", "reply_text"}
          /\ (handler'[p].pc = "done" /\ handler'[p].outcome = "BadRequest")
               => /\ handler'[p].chat \in ChatTypes
                  /\ handler'[p].res =
                        IF handler'[p].chat = "private" THEN "text" ELSE None
          /\ (/\ handler[p].pc = "reply_video"
              /\ handler'[p].pc = "done"
              /\ handler'[p].outcome = "BadRequest")
               => handler'[p].chat # "private"
          /\ (handler[p].pc = "reply_text" /\ handler'[p].pc # "reply_text")
               => /\ handler'[p].pc = "done"
                  /\ handler'[p].chat = "private"
                  /\ \/ handler'[p].outcome = "BadRequest" /\ handler'[p].res = "text"
                     \/ handler'[p].outcome = "raised" /\ handler'[p].res = None
      ]_vars

\* a refused video in a private chat, answered by the link, and one in a
\* private chat whose reply_text raised, answered by nothing
C12_Witness ==
    \E p \in Handlers : \E q \in Handlers :
        /\ handler[p] = Done("BadRequest", [from |-> "url", value |-> "stream-A"],
                             "text", "private")
        /\ handler[q] = Done("raised", NoVideoArg, None, "private")

\* C15: the cache is read in the step that starts the send and written in
\* the step that ends it, and nothing between them looks at the cache again:
\* a run that missed the cache goes on to send the raw media whatever other
\* runs write meanwhile, and when its send returns it writes its own handle
\* over theirs.  So two racing runs for one uncached url both miss, both
\* send the raw media and both write.
C15_RacingRunsBothDeliver ==
    [][\A p \in Handlers :
          /\ (handler[p].pc # "reply_video" /\ handler'[p].pc = "reply_video")
               => tg_video_cache' = tg_video_cache
          /\ (handler[p].pc = "reply_video" /\ handler'[p].pc = "reply_video")
               => handler'[p].video = handler[p].video
          /\ (/\ handler[p].pc = "reply_video"
              /\ handler'[p].pc = "done"
              /\ handler'[p].outcome = "returned")
               => /\ handler'[p].video = handler[p].video
                  /\ { e \in tg_video_cache' : e[1] = handler[p].media.original_url }
                        = {<<handler[p].media.original_url, handler'[p].res>>}
      ]_vars

\* two runs for the same url both missed the cache and both sent the bytes;
\* the one that returned last left its handle
C15_Witness ==
    /\ handler[1] = Done("returned", [from |-> "file_input", value |-> "bytes-B"],
                         "file_id_2", None)
    /\ handler[2] = Done("returned", [from |-> "file_input", value |-> "bytes-B"],
                         "file_id_1", None)
    /\ tg_video_cache = {<<UrlB, "file_id_1">>}

\* C16 as stated: the step in which reply_video raises BadRequest, and the
\* step that ends the fallback, leave every entry of the cache as it was
\* (none created, none overwritten, none removed); and the run that was
\* refused ends by raising the BadRequest, after the fallback.
C16_BadRequestAlwaysReraised ==
    [][\A p \in Handlers :
          /\ (/\ handler[p].pc = "reply_video"
              /\ \/ handler'[p].pc = "reply_text"
                 \/ handler'[p].pc = "done" /\ handler'[p].outcome = "BadRequest")
               => tg_video_cache' = tg_video_cache
          /\ (handler[p].pc = "reply_text" /\ handler'[p].pc # "reply_text")
               => /\ tg_video_cache' = tg_video_cache
                  /\ handler'[p].pc = "done"
                  /\ handler'[p].outcome = "BadRequest"
      ]_vars

\* C16 amended: every step that ends a run by an error, and the step in
\* which reply_video raises BadRequest, leave every entry of the cache as it
\* was.  A run refused in a chat that is not private ends by raising the
\* BadRequest; one refused in a private chat ends by raising the BadRequest
\* if the reply_text of the fallback returned (the link was sent), and with
\* the error of reply_text if it raised (no link was sent).
C16_FailureLeavesCache ==
    [][\A p \in Handlers :
          /\ (/\ handler[p].pc # "done"
              /\ handler'[p].pc = "done"
              /\ handler'[p].outcome # "returned")
               => tg_video_cache' = tg_video_cache
          /\ (handler[p].pc = "reply_video" /\ handler'[p].pc = "reply_text")
               => /\ tg_video_cache' = tg_video_cache
                  /\ handler'[p].chat = "private"
          /\ (/\ handler[p].pc = "reply_video"
              /\ handler'[p].pc = "done"
              /\ handler'[p].outcome = "BadRequest")
               => handler'[p].chat # "private" /\ handler'[p].res = None
          /\ (handler[p].pc = "reply_text" /\ handler'[p].pc # "reply_text")
               => /\ handler'[p].pc = "done"
                  /\ \/ handler'[p].outcome = "BadRequest" /\ handler'[p].res = "text"
                     \/ handler'[p].outcome = "raised" /\ handler'[p].res = None
      ]_vars

\* the send of a cached handle was refused twice in a private chat: one run
\* sent the link and raised the BadRequest, the reply_text of the other
\* raised, and the cached handle is still there
C16_Witness ==
    /\ handler[1] = Done("BadRequest", [from |-> "tg_video", value |-> "file_id_1"],
                         "text", "private")
    /\ handler[2] = Done("raised", NoVideoArg, None, "private")
    /\ tg_video_cache = {<<UrlA, "file_id_1">>}
    /\ delivered[UrlA] = "file_id_1"

\* the places in medias of the Videos and MediaGroups
Deliverables(medias) ==
    { i \in DOMAIN medias : medias[i].kind \in {"Video", "MediaGroup"} }

\* C18: when Parser.parse has returned, link_parser goes on with the first
\* Video or MediaGroup of the medias, and with nothing if there is none; from
\* there the run keeps that one media until it ends, so it never comes to a
\* later one; and a step that changes the cache is the return of the
\* reply_video of such a first media and changes the entry of its url only.
C18_OnlyFirstMedia ==
    [][/\ \A p \in Handlers :
            /\ (handler[p].pc = "parsing" /\ handler'[p].pc # "parsing")
                 => \E answered \in SUBSET DOMAIN handler[p].links :
                       LET medias == ParserParse(handler[p].links, answered, 1)
                       IN  IF Deliverables(medias) = {}
                           THEN handler'[p].pc = "done"
                           ELSE /\ handler'[p].pc \in {"reply_video", "reply_group"}
                                /\ handler'[p].medias = medias
                                /\ \E i \in Deliverables(medias) :
                                      /\ \A j \in Deliverables(medias) : i <= j
                                      /\ handler'[p].media = medias[i]
            /\ (handler[p].pc \in {"reply_video", "reply_group", "reply_text"})
                 => \/ handler'[p].pc = "done"
                    \/ /\ handler'[p].pc \in {handler[p].pc, "reply_text"}
                       /\ handler'[p].media = handler[p].media
                       /\ handler'[p].medias = handler[p].medias
       /\ tg_video_cache' # tg_video_cache
            => \E p \in Handlers :
                  /\ handler[p].pc = "reply_video"
                  /\ handler'[p].pc = "done"
                  /\ \A i \in Deliverables(handler[p].medias) :
                        handler[p].medias[i] = handler[p].media
                            \/ \E j \in Deliverables(handler[p].medias) :
                                   j < i /\ handler[p].medias[j] = handler[p].media
                  /\ \A e \in tg_video_cache' :
                        e \in tg_video_cache
                            \/ e[1] = handler[p].media.original_url
                  /\ \A e \in tg_video_cache :
                        e \in tg_video_cache'
                            \/ e[1] = handler[p].media.original_url
      ]_vars

\* a message with two supported links, both resolved: the run is sending
\* the video of the first, and only that one, while nothing is cached yet
C18_Witness ==
    \E p \in Handlers :
        /\ handler[p].pc = "reply_video"
        /\ handler[p].medias = <<Resolve("youtu.be/A"), Resolve("tiktok.com/B")>>
        /\ handler[p].media = Resolve("youtu.be/A")
        /\ handler[p].video = [from |-> "url", value |-> "stream-A"]
        /\ tg_video_cache = {}

(***************************************************************************)
(* Properties of Parser.parse as called by link_parser (SpecDispatch).     *)
(***************************************************************************)
\* the places of the links whose task returned a Media
Yielding == { i \in DOMAIN dispatch.links : dispatch.results[i] # <<>> }
\* the k-th of them, counting by place
KthYielding(k) ==
    CHOOSE i \in Yielding : Cardinality({ j \in Yielding : j < i }) = k - 1

\* C13: when Parser.parse has returned, the medias are those of the links
\* whose task returned one, in the order of the links in the message,
\* whatever the order in which the tasks completed; the other links are absent.
C13_OrderOfLinks ==
    dispatch.pc = "joined" =>
        /\ Len(dispatch.medias) = Cardinality(Yielding)
        /\ \A k \in DOMAIN dispatch.medias :
              dispatch.medias[k] = Resolve(dispatch.links[KthYielding(k)])

\* an unsupported link, then two supported ones whose tasks completed last
\* link first
C13_Witness ==
    /\ dispatch.pc = "joined"
    /\ dispatch.links = <<"example.com", "youtu.be/A", "tiktok.com/B">>
    /\ dispatch.done = <<3, 2>>
    /\ dispatch.medias = <<Resolve("youtu.be/A"), Resolve("tiktok.com/B")>>

(***************************************************************************)
(* Properties of the reports of inline_query (SpecHistory).                *)
(***************************************************************************)
\* C14: whatever the calls of inline_query and however two of them
\* interleave, at most one report is stored for a type, message and place;
\* and the identifier save_report has returned to a call is that of the one
\* stored report with the call's type, query and place, so a call that saves
\* a report already stored gets the identifier of the existing one.
C14_AtMostOneReport ==
    /\ \A r \in reports : \A s \in reports :
          (/\ r.report_type = s.report_type
           /\ r.message = s.message
           /\ r.report_place = s.report_place) => r = s
    /\ \A h \in InlineHandlers :
          iq[h].pc = "answer" =>
              /\ iq[h].report_uid \in reports
              /\ iq[h].report_uid.report_type = iq[h].report_type
              /\ iq[h].report_uid.message = iq[h].query
              /\ iq[h].report_uid.report_place = "INLINE"
    /\ \A h \in InlineHandlers : \A g \in InlineHandlers :
          (/\ iq[h].pc = "answer" /\ iq[g].pc = "answer"
           /\ iq[h].report_type = iq[g].report_type
           /\ iq[h].query = iq[g].query) => iq[h].report_uid = iq[g].report_uid

\* two concurrent calls with the same query that found nothing: one report,
\* and both hold its identifier
C14_Witness ==
    /\ iq[1].pc = "answer" /\ iq[2].pc = "answer"
    /\ iq[1].query = "youtu.be/A" /\ iq[2].query = "youtu.be/A"
    /\ iq[1].report_type = "MEDIA_NOT_FOUND" /\ iq[2].report_type = "MEDIA_NOT_FOUND"
    /\ iq[1].report_uid = iq[2].report_uid
    /\ reports = {iq[1].report_uid}

(***************************************************************************)
(* Properties of inline_query and chosen_inline_query (SpecHistory).       *)
(***************************************************************************)
VideoA == Resolve("youtu.be/A")
VideoB == Resolve("tiktok.com/B")

\* C8: the history never holds the same video (equal by value) twice.
C8_HistoryDeduplicated ==
    \A i \in DOMAIN history : \A j \in DOMAIN history :
        i # j => history[i] # history[j]

\* the video of the second result is chosen, equal to the one chosen first:
\* the history still has length 1
C8_Witness ==
    /\ uuids = 2
    /\ update = ChosenUpdate(2, TRUE, VideoA)
    /\ history = <<VideoA>>

\* C9: a step changes the history only if it handles a chosen inline result
\* whose id is pending in temp_history, with the history enabled and the
\* pending video not in the history; it then appends that video at the end
\* and leaves the entries before it as they were.
C9_HistoryAppendOnly ==
    [][ LET pending == { e \in temp_history : e[1] = update'.result_id }
            recorded ==
                /\ update'.kind = "chosen_inline_result"
                /\ update'.history_enabled
                /\ pending # {}
                /\ \A e \in pending : e[2] \notin Range(history)
        IN  IF recorded
            THEN \E e \in pending : history' = Append(history, e[2])
            ELSE history' = history
      ]_vars

\* a second, different video chosen and appended behind the first
C9_Witness ==
    /\ update = ChosenUpdate(2, TRUE, VideoB)
    /\ history = <<VideoA, VideoB>>

\* C19: a step that handles a chosen inline result leaves temp_history
\* empty, whether or not its id was pending and whether or not the history
\* is enabled; ids are registered once, when issued, so a result discarded
\* this way is never pending again; and a chosen inline result whose id is
\* not pending leaves the history as it was.
C19_ChosenEmptiesTempHistory ==
    [][/\ update'.kind = "chosen_inline_result" => temp_history' = {}
       /\ \A e \in temp_history' : e \in temp_history \/ e[1] > uuids
       /\ (/\ update'.kind = "chosen_inline_result"
           /\ \A e \in temp_history : e[1] # update'.result_id)
            => history' = history
      ]_vars

\* two results have been issued and the first is chosen: its video is
\* recorded, and nothing is left pending
C19_Witness ==
    /\ uuids = 2
    /\ update = ChosenUpdate(1, TRUE, VideoA)
    /\ history = <<VideoA>>
    /\ temp_history = {}
====
